---- MODULE Spec2Model ----
(***************************************************************************)
(* The notebook [3]Deterministic_tractography.ipynb as a state machine.    *)
(*                                                                         *)
(* The program is a list of code cells run against one Python kernel.  The *)
(* state is the kernel's namespace (the names bound so far), the value of  *)
(* `seeds`, the files written to the working directory and the outcome of  *)
(* the last cell.  A cell is a list of statements; a statement reads names *)
(* in evaluation order, and raises NameError at the first one that is not  *)
(* bound, which ends the cell with the statements before it already done.  *)
(* Library calls (dipy) are taken to return; what they compute is modelled *)
(* only where the notebook fixes it by a parameter (the seeding density).  *)
(***************************************************************************)
EXTENDS Naturals, Sequences, FiniteSets

VARIABLES
    bound,      \* the names bound in the kernel's namespace
    seeds,      \* the value of `seeds`: a set of <<voxel, i, j, k>> grid points
    files,      \* files present in the working directory
    error,      \* the outcome of the last cell run: None, or the unbound name
    pc,         \* the next cell of a top-to-bottom run (0: cells are run in any order)
    fury,       \* the value dipy.viz gives has_fury (whether fury is installed)
    labelvol    \* the contents of the stanford_labels volume: voxel -> label

vars == <<bound, seeds, files, error, pc, fury, labelvol>>

\* Number of voxels of the label volume the model draws.
NVox == 2

Voxels == 1..NVox

\* The values a voxel of the label volume takes (white matter is 1 or 2).
Labels == {0, 1, 2}

None == "None"

TrkFile == "dti_CC_tractography_deterministic.trk"

----------------------------------------------------------------------------
(* Statements.  reads: the names evaluated, in order; binds: the names     *)
(* assigned; writes: the files written; inIf: the statement is in the body *)
(* of `if has_fury:`.                                                      *)

Stmt(r, b) == [reads |-> r, binds |-> b, writes |-> {}, inIf |-> FALSE]

Import(b) == Stmt(<<>>, b)

Write(r, w) == [reads |-> r, binds |-> {}, writes |-> w, inIf |-> FALSE]

Body(r, b, w) == [reads |-> r, binds |-> b, writes |-> w, inIf |-> TRUE]

CellLoad ==
    << Import({"gradient_table"}),
       Import({"get_fnames"}),
       Import({"read_bvals_bvecs"}),
       Import({"load_nifti"}),
       Stmt(<<"get_fnames">>, {"hardi_fname", "hardi_bval_fname", "hardi_bvec_fname"}),
       Stmt(<<"load_nifti", "hardi_fname">>, {"data", "affine", "hardi_img"}),
       Stmt(<<"read_bvals_bvecs", "hardi_bval_fname", "hardi_bvec_fname">>, {"bvals", "bvecs"}),
       Stmt(<<"gradient_table", "bvals", "bvecs">>, {"gtab"}) >>

CellMask ==
    << Import({"median_otsu"}),
       Stmt(<<"median_otsu", "data">>, {"maskdata", "mask"}) >>

CellLabels ==
    << Import({"load_nifti_data"}),
       Stmt(<<"get_fnames">>, {"label_fname"}),
       Stmt(<<"load_nifti_data", "label_fname">>, {"labels"}),
       Stmt(<<"labels", "labels">>, {"white_matter"}) >>

CellTensorModel ==
    << Import({"TensorModel"}),
       Stmt(<<"TensorModel", "gtab">>, {"dti_model"}) >>

CellPeaks ==
    << Import({"peaks_from_model"}),
       Import({"default_sphere"}),
       Stmt(<<"peaks_from_model", "dti_model", "maskdata", "default_sphere", "white_matter">>,
            {"dti_peaks"}) >>

\* The direction-field cell without its import of has_fury.
CellShowPeaks_NoHasFury ==
    << Import({"window", "actor"}),
       Body(<<"window">>, {"scene"}, {}),
       Body(<<"scene", "actor", "dti_peaks", "dti_peaks">>, {}, {}),
       Body(<<"window", "scene">>, {}, {"dti_direction_field.png"}),
       Body(<<"window", "scene">>, {}, {}) >>

CellShowPeaks ==
    << Import({"window", "actor", "has_fury"}),
       Stmt(<<"has_fury">>, {}),
       Body(<<"window">>, {"scene"}, {}),
       Body(<<"scene", "actor", "dti_peaks", "dti_peaks">>, {}, {}),
       Body(<<"window", "scene">>, {}, {"dti_direction_field.png"}),
       Body(<<"window", "scene">>, {}, {}) >>

CellSeeds ==
    << Import({"utils"}),
       Stmt(<<"labels">>, {"seed_mask"}),
       Stmt(<<"utils", "seed_mask", "affine">>, {"seeds"}) >>

CellFA ==
    << Stmt(<<"dti_model", "maskdata">>, {"dti_fit"}),
       Stmt(<<"dti_fit">>, {"fa"}) >>

CellStop ==
    << Import({"ThresholdStoppingCriterion"}),
       Stmt(<<"ThresholdStoppingCriterion", "fa">>, {"stopping_criterion"}) >>

\* The tracking cell with the seeds left out of the call.
CellLocalTracking_NoSeeds ==
    << Import({"LocalTracking"}),
       Stmt(<<"LocalTracking", "dti_peaks", "stopping_criterion", "affine">>,
            {"streamlines_generator"}) >>

CellLocalTracking ==
    << Import({"LocalTracking"}),
       Stmt(<<"LocalTracking", "dti_peaks", "stopping_criterion", "seeds", "affine">>,
            {"streamlines_generator"}) >>

CellStreamlines ==
    << Import({"Streamlines"}),
       Stmt(<<"Streamlines", "streamlines_generator">>, {"streamlines"}) >>

CellShowStreamlines ==
    << Import({"colormap"}),
       Stmt(<<"has_fury">>, {}),
       Body(<<"colormap", "streamlines">>, {"color"}, {}),
       Body(<<"actor", "streamlines", "colormap", "streamlines">>, {"streamlines_actor"}, {}),
       Body(<<"window">>, {"scene"}, {}),
       Body(<<"scene", "streamlines_actor">>, {}, {}),
       Body(<<"window", "scene">>, {}, {"dti_tractogram.png"}),
       Body(<<"window", "scene">>, {}, {}) >>

CellSave ==
    << Import({"Space", "StatefulTractogram"}),
       Import({"save_trk"}),
       Stmt(<<"StatefulTractogram", "streamlines", "hardi_img", "Space">>, {"sft"}),
       Write(<<"save_trk", "sft", "streamlines">>, {TrkFile}) >>

\* A cell of shell escapes (!dir, !dipy_horizon ...), of comments, or empty:
\* it holds no Python statement.
CellShell == << >>

\* The code cells, top to bottom.
Cells ==
    << CellLoad, CellMask, CellLabels, CellTensorModel, CellPeaks, CellShowPeaks,
       CellSeeds, CellFA, CellStop, CellLocalTracking, CellStreamlines,
       CellShowStreamlines, CellSave,
       CellShell, CellShell, CellShell, CellShell, CellShell, CellShell, CellShell,
       CellShell >>

NCells == Len(Cells)

LOAD == 1
MASK == 2
LABELS == 3
TENSORMODEL == 4
PEAKS == 5
SHOWPEAKS == 6
SEEDS == 7
FA == 8
STOP == 9
LOCALTRACKING == 10
STREAMLINES == 11
SHOWSTREAMLINES == 12
SAVE == 13

----------------------------------------------------------------------------
(* Running a cell. *)

\* The first name of `reads` that is not bound, or None.
RECURSIVE FirstUnbound(_, _)
FirstUnbound(reads, b) ==
    IF reads = << >> THEN None
    ELSE IF Head(reads) \notin b THEN Head(reads)
    ELSE FirstUnbound(Tail(reads), b)

\* The statements run in order from state st = [bound, files, error]; the
\* body of `if has_fury:` is skipped when has_fury is False; the first
\* NameError ends the cell.
RECURSIVE RunStmts(_, _, _)
RunStmts(stmts, st, hasFury) ==
    IF stmts = << >> THEN st
    ELSE LET s == Head(stmts)
             missing == FirstUnbound(s.reads, st.bound)
         IN  IF s.inIf /\ ~hasFury THEN RunStmts(Tail(stmts), st, hasFury)
             ELSE IF missing # None THEN [st EXCEPT !.error = missing]
             ELSE RunStmts(Tail(stmts),
                           [bound |-> st.bound \cup s.binds,
                            files |-> st.files \cup s.writes,
                            error |-> None],
                           hasFury)

\* The names a cell can read from the namespace as it was when the cell
\* started: those read by a statement with no earlier statement of the cell
\* binding them (a binding in the body of the `if` covers only the body).
RECURSIVE FreeNames(_, _, _)
FreeNames(stmts, top, inBody) ==
    IF stmts = << >> THEN {}
    ELSE LET s == Head(stmts)
             known == IF s.inIf THEN top \cup inBody ELSE top
             free == {s.reads[i] : i \in DOMAIN s.reads} \ known
         IN  free \cup FreeNames(Tail(stmts),
                                 IF s.inIf THEN top ELSE top \cup s.binds,
                                 IF s.inIf THEN inBody \cup s.binds ELSE inBody)

\* The names that carry state from one cell run to a later one.  Every other
\* name is bound again by its cell before the cell reads it, so the kernel's
\* namespace is kept restricted to these.
Shared == UNION {FreeNames(Cells[c], {}, {}) : c \in 1..NCells}

\* seed_mask = (labels == 2)
SeedMask(vol) == {v \in DOMAIN vol : vol[v] = 2}

\* The number of seeds along each axis of a voxel: density=[3, 3, 3].
DensityX == 3
DensityY == 3
DensityZ == 3

\* utils.seeds_from_mask(seed_mask, affine, density): a grid of
\* density[0] x density[1] x density[2] seeds in every voxel of the mask.
SeedsFromMask(mask, dx, dy, dz) ==
    {<<v, i, j, k>> : v \in mask, i \in 1..dx, j \in 1..dy, k \in 1..dz}

\* The outcome of running cell c in the current state.
Outcome(c) ==
    RunStmts(Cells[c], [bound |-> bound, files |-> files, error |-> None], fury)

\* Running cell c: the namespace, the files and the error output change as the
\* cell's statements say; `seeds` takes its value when the cell binds it.
Execute(c) ==
    LET r == Outcome(c)
    IN  /\ bound' = r.bound \cap Shared
        /\ files' = r.files
        /\ error' = r.error
        /\ seeds' = IF "seeds" \in r.bound /\ "seeds" \notin bound
                        THEN SeedsFromMask(SeedMask(labelvol), DensityX, DensityY, DensityZ)
                        ELSE seeds

----------------------------------------------------------------------------
(* The notebook used interactively: any cell at any time, and the kernel   *)
(* restarted at any time (the working directory keeps its files).          *)

TypeInit ==
    /\ bound = {}
    /\ seeds = {}
    /\ files = {}
    /\ error = None
    /\ fury \in BOOLEAN
    /\ labelvol \in [Voxels -> Labels]

Init == TypeInit /\ pc = 0

RunCell(c) ==
    /\ pc = 0
    /\ Execute(c)
    /\ UNCHANGED <<pc, fury, labelvol>>

Restart ==
    /\ pc = 0
    /\ bound' = {}
    /\ seeds' = {}
    /\ error' = None
    /\ UNCHANGED <<files, pc, fury, labelvol>>

Next == (\E c \in 1..NCells : RunCell(c)) \/ Restart

Spec == Init /\ [][Next]_vars

----------------------------------------------------------------------------
(* The notebook run once, top to bottom, from a fresh kernel. *)

InitLinear == TypeInit /\ pc = 1

RunNextCell ==
    /\ pc \in 1..NCells
    /\ Execute(pc)
    /\ pc' = pc + 1
    /\ UNCHANGED <<fury, labelvol>>

NextLinear == RunNextCell

SpecLinear == InitLinear /\ [][NextLinear]_vars

----------------------------------------------------------------------------
(* Properties. *)

\* Cell c is run in this step and completes without an exception.
Completes(c) == Execute(c) /\ error' = None

\* C1: the steps occur in the stated order.  Whenever the mask cell completes
\* the dataset was loaded before; whenever the peaks cell or the tensor-fit
\* cell completes the tensor model and the masked data existed before;
\* whenever the LocalTracking cell completes the peak directions, the seeds
\* and the stopping criterion existed before; whenever the save cell
\* completes (and writes the tractography file) the streamlines existed before.
C1_PipelineOrder ==
    [][ /\ Completes(MASK) => "data" \in bound
        /\ Completes(PEAKS) => {"dti_model", "maskdata"} \subseteq bound
        /\ Completes(FA) => {"dti_model", "maskdata"} \subseteq bound
        /\ Completes(LOCALTRACKING) =>
               {"dti_peaks", "seeds", "stopping_criterion"} \subseteq bound
        /\ Completes(SAVE) => "streamlines" \in bound
        /\ (TrkFile \notin files /\ TrkFile \in files') => "streamlines" \in bound
      ]_vars

\* C1 witness: the whole pipeline has run in one kernel session, up to the
\* tractography file.
C1_Witness ==
    /\ {"maskdata", "dti_peaks", "fa", "streamlines_generator", "streamlines"}
           \subseteq bound
    /\ TrkFile \in files
    /\ error = None

\* C4 (as stated): the seeding step places 2 x 2 x 2 = 8 seeds in each
\* seeded voxel.
C4_EightSeedsPerVoxel ==
    "seeds" \in bound =>
        \A v \in SeedMask(labelvol) : Cardinality({s \in seeds : s[1] = v}) = 8

\* C6: in a top-to-bottom run from a fresh kernel no cell raises NameError:
\* every name a cell reads was bound by an earlier cell (or earlier in it).
C6_NoUnboundName == error = None

\* C6 witness: the top-to-bottom run has passed every cell, with fury
\* installed, so the bodies of both `if has_fury:` were run, and the
\* tractography file is written.
C6_Witness ==
    /\ pc = NCells + 1
    /\ fury
    /\ {"dti_direction_field.png", "dti_tractogram.png", TrkFile} \subseteq files
    /\ error = None

====
